---- MODULE Spec2Model ----
(***************************************************************************)
(* Push-notification bridge between the native host and the embedded web   *)
(* content: NotificationService (the process-wide singleton), the          *)
(* WebViewBridge component and the HomeScreen registration.                *)
(*                                                                         *)
(* JavaScript values are records [t, v]: t is the result of typeof (with   *)
(* "null" for null) and v is the text String(value) yields.                *)
(***************************************************************************)
EXTENDS Integers, Sequences, FiniteSets, TLC

\* Number of requests the web content may have in flight at once.
MaxRequests == 2

\* Number of inbound messages of arbitrary shape the web content sends.
MaxMessages == 1

\* Number of notification events the OS fires.
MaxEvents == 2

\* Number of times the bridge component is mounted.
MaxMounts == 2

\* Number of times one subscription handle is disposed.
MaxDisposals == 2

\* ------------------------------------------------------------------------
\* JavaScript values
\* ------------------------------------------------------------------------
Null == "null"

JSUndefined == [t |-> "undefined", v |-> "undefined"]

JSNull == [t |-> "null", v |-> "null"]

JSString(s) == [t |-> "string", v |-> s]

JSNumber(s) == [t |-> "number", v |-> s]

\* String(x)
String(x) == x.v

\* x ?? y
Nullish(x) == x.t \in {"undefined", "null"}

\* Tokens the OS push service can hand out.
Tokens == {"tokA", "tokB"}

\* ------------------------------------------------------------------------
\* Inbound raw messages (event.nativeEvent.data) and what JSON.parse makes
\* of them.  json = "invalid": not JSON text; "null": the JSON text null;
\* "object": a JSON object with the given fields (JSUndefined = field absent).
\* ------------------------------------------------------------------------
NoPayload ==
    [t |-> "undefined", hasTitle |-> FALSE, title |-> JSUndefined,
     hasBody |-> FALSE, body |-> JSUndefined, data |-> "undefined"]

NullPayload == [NoPayload EXCEPT !.t = "null"]

ObjPayload(hasTitle, title, hasBody, body, data) ==
    [t |-> "object", hasTitle |-> hasTitle, title |-> title,
     hasBody |-> hasBody, body |-> body, data |-> data]

\* data: "undefined" (absent), "object" (a JSON object), "string" (a scalar)
Payloads ==
    { NoPayload, NullPayload,
      ObjPayload(TRUE, JSString("T"), FALSE, JSUndefined, "undefined"),
      ObjPayload(FALSE, JSUndefined, TRUE, JSString("B"), "undefined"),
      ObjPayload(TRUE, JSString("T"), TRUE, JSString("B"), "undefined"),
      ObjPayload(TRUE, JSNumber("7"), TRUE, JSNull, "string"),
      ObjPayload(TRUE, JSString("T"), TRUE, JSString("B"), "object") }

SendTypes == {"SEND_PUSH_VIA_BACKEND", "SEND_LOCAL_NOTIFICATION"}

RequestTypes == {"REQUEST_PUSH_TOKEN"} \cup SendTypes

\* the string requestId the content gives its i-th message
RequestIdNames == <<"r1", "r2", "r3", "r4">>

RawMessage(type, requestId, payload) ==
    [json |-> "object", type |-> type, requestId |-> requestId, payload |-> payload]

InvalidRaw ==
    [json |-> "invalid", type |-> JSUndefined, requestId |-> JSUndefined,
     payload |-> NoPayload]

NullRaw == [InvalidRaw EXCEPT !.json = "null"]

ValidPayload == ObjPayload(TRUE, JSString("T"), TRUE, JSString("B"), "undefined")

\* the payload is not an object, or has no title field, or no body field
LacksTitleOrBody(payload) ==
    payload.t # "object" \/ ~payload.hasTitle \/ ~payload.hasBody

\* The messages the content may send as its i-th message: text that is not
\* JSON, the JSON text null, every payload shape under SEND_LOCAL_NOTIFICATION,
\* the rejected payload shapes and an accepted one under SEND_PUSH_VIA_BACKEND,
\* REQUEST_PUSH_TOKEN, an unknown and a missing type, and requestIds that are
\* absent or not strings.
Raws(i) ==
    {InvalidRaw, NullRaw}
    \cup { RawMessage(JSString("SEND_LOCAL_NOTIFICATION"), JSString(RequestIdNames[i]), p) :
             p \in Payloads }
    \cup { RawMessage(JSString("SEND_PUSH_VIA_BACKEND"), JSString(RequestIdNames[i]), p) :
             p \in {q \in Payloads : LacksTitleOrBody(q)} \cup {ValidPayload} }
    \cup { RawMessage(ty, JSString(RequestIdNames[i]), NoPayload) :
             ty \in {JSString("REQUEST_PUSH_TOKEN"), JSString("FOO"), JSUndefined} }
    \cup { RawMessage(JSString("SEND_LOCAL_NOTIFICATION"), id, ValidPayload) :
             id \in {JSUndefined, JSNumber("7")} }
    \cup { RawMessage(JSString("FOO"), id, NoPayload) :
             id \in {JSUndefined, JSNumber("7")} }

\* JSON.parse(data): ok = FALSE when it throws
JSONParse(raw) ==
    IF raw.json = "invalid"
    THEN [ok |-> FALSE, isNull |-> FALSE, type |-> JSUndefined,
          requestId |-> JSUndefined, payload |-> NoPayload]
    ELSE [ok |-> TRUE, isNull |-> raw.json = "null", type |-> raw.type,
          requestId |-> raw.requestId, payload |-> raw.payload]

\* ------------------------------------------------------------------------
\* Pure helpers of WebViewBridge.tsx
\* ------------------------------------------------------------------------
parsedRequestIdNever(raw) == JSUndefined

\* the secondary parse of the raw payload; reading a property of null throws
\* inside the try and is caught
parsedRequestId(raw) ==
    LET parsed == JSONParse(raw)
    IN  IF ~parsed.ok \/ parsed.isNull THEN JSUndefined
        ELSE IF parsed.requestId.t = "string" THEN parsed.requestId
        ELSE JSUndefined

InvalidPayloadMessage == <<"Invalid notification payload received from web app">>

Coerce(x) == IF x.t = "string" THEN x.v ELSE IF Nullish(x) THEN "" ELSE String(x)

toNotificationDataNoBodyCheck(payload) ==
    IF payload.t = "object" /\ payload.hasTitle
    THEN [ok |-> TRUE, title |-> Coerce(payload.title), body |-> Coerce(payload.body),
          data |-> IF payload.data = "object" THEN "object" ELSE "undefined"]
    ELSE [ok |-> FALSE, title |-> "", body |-> "", data |-> "undefined"]

\* ok = FALSE: throws Error(InvalidPayloadMessage)
toNotificationData(payload) ==
    IF payload.t = "object" /\ payload.hasTitle /\ payload.hasBody
    THEN [ok |-> TRUE, title |-> Coerce(payload.title), body |-> Coerce(payload.body),
          data |-> IF payload.data = "object" THEN "object" ELSE "undefined"]
    ELSE [ok |-> FALSE, title |-> "", body |-> "", data |-> "undefined"]

UnknownTypeMessageNoType(type) == <<"Unknown bridge request type: ">>

\* `Unknown bridge request type: ${String(type)}`
UnknownTypeMessage(type) == <<"Unknown bridge request type: ", String(type)>>

ParseFailureMessage == <<"Unable to parse bridge payload from web view">>

\* message of the TypeError raised by destructuring null
DestructureNullMessage == <<"Cannot destructure property of null">>

NoError == <<>>

\* BridgeResponse records; JSON.stringify drops fields that are undefined
Message(type, requestId, token, action, context, error) ==
    [type |-> type, requestId |-> requestId, token |-> token, action |-> action,
     context |-> context, error |-> error]

PushTokenMessage(requestId, token) ==
    Message("PUSH_TOKEN", requestId, token, "undefined", "undefined", NoError)

SuccessMessage(requestId, action) ==
    Message("SUCCESS", requestId, "undefined", action, "undefined", NoError)

ErrorMessageUnset(requestId, message, errorContext) ==
    Message("ERROR", requestId, "undefined", "undefined", errorContext, NoError)

ErrorMessage(requestId, message, errorContext) ==
    Message("ERROR", requestId, "undefined", "undefined", errorContext, message)

\* ------------------------------------------------------------------------
\* State
\* ------------------------------------------------------------------------
VARIABLES
    env,            \* Device.isDevice, Expo Go, project id, Platform.OS
    expoPushToken,  \* NotificationService.expoPushToken
    regPc,          \* position of each registerForPushNotifications call
    regResult,      \* what each call returned
    calls,          \* OS and HTTP calls made on behalf of each caller
    homeToken,      \* HomeScreen state expoPushToken
    mounted,        \* WebViewBridge is mounted
    isLoading, isWebReady, loadError,   \* WebViewBridge state
    req,            \* the inbound messages and their handlers
    posts,          \* postToWeb calls of each message's handler
    unsolicited,    \* postToWeb calls outside any request
    subscriptions,  \* listener subscriptions registered with the OS emitter
    mounts,         \* how many times the bridge has been mounted
    fired,          \* notification events the OS has fired, oldest first,
                    \* each with the requests that were in flight
    disposals,      \* how many times each subscription handle was disposed
    disposeError,   \* a disposal of a subscription handle raised
    scheduled       \* requests whose local notification the OS scheduled

vars == <<env, expoPushToken, regPc, regResult, calls, homeToken, mounted,
          isLoading, isWebReady, loadError, req, posts, unsolicited,
          subscriptions, mounts, fired, disposals, disposeError, scheduled>>

Slots == 1..MaxRequests

StartupCaller == [kind |-> "startup", idx |-> 0]

HomeCaller == [kind |-> "home", idx |-> 0]

RequestCaller(i) == [kind |-> "request", idx |-> i]

Callers == {StartupCaller, HomeCaller} \cup {RequestCaller(i) : i \in Slots}

\* device and build configurations the process can run in
Envs ==
    { [isDevice |-> TRUE, expoGo |-> FALSE, projectId |-> TRUE, android |-> TRUE],
      [isDevice |-> TRUE, expoGo |-> FALSE, projectId |-> TRUE, android |-> FALSE],
      [isDevice |-> FALSE, expoGo |-> FALSE, projectId |-> TRUE, android |-> TRUE],
      [isDevice |-> TRUE, expoGo |-> TRUE, projectId |-> TRUE, android |-> TRUE],
      [isDevice |-> TRUE, expoGo |-> FALSE, projectId |-> FALSE, android |-> TRUE] }

Call(op, arg) == [op |-> op, arg |-> arg]

\* webViewRef.current is set exactly while the WebView element is rendered
WebViewRefCurrent(isMounted, error) == isMounted /\ error = Null

\* webViewRef.current of the bridge instance that was mounted as number m
RefOfMount(m) == m = mounts /\ WebViewRefCurrent(mounted, loadError)

\* postToWeb: webViewRef.current?.postMessage(JSON.stringify(message))
postToWeb(log, message, refSet) == Append(log, [msg |-> message, delivered |-> refSet])

\* ------------------------------------------------------------------------
\* NotificationService.registerForPushNotifications, one step per await
\* ------------------------------------------------------------------------
registerEntryNoExpoGo(e) ==
    IF ~e.isDevice THEN "returned" ELSE "getPermissions"

\* the checks before the try block: "returned" = return null at once
registerEntry(e) ==
    IF ~e.isDevice THEN "returned"
    ELSE IF e.expoGo THEN "returned"
    ELSE "getPermissions"

\* mount: the bridge instance whose onMessage got the message; thrown: the
\* message of the error the catch of withRequestGuard got
NoRequest ==
    [pc |-> "idle", raw |-> InvalidRaw, http |-> "none", mount |-> 0,
     thrown |-> NoError]

Init ==
    /\ env \in Envs
    /\ expoPushToken = Null
    \* the constructor runs initializeNotifications up to its first await
    /\ regPc = [c \in Callers |->
                  IF c = StartupCaller THEN registerEntry(env) ELSE "idle"]
    /\ regResult = [c \in Callers |-> Null]
    \* the token request, the HTTP requests, the channel set-up and the
    \* scheduler calls are recorded; the permission queries are not
    /\ calls = [c \in Callers |-> <<>>]
    /\ homeToken = Null
    /\ mounted = FALSE
    /\ isLoading = TRUE
    /\ isWebReady = FALSE
    /\ loadError = Null
    /\ req = [i \in Slots |-> NoRequest]
    /\ posts = [i \in Slots |-> <<>>]
    /\ unsolicited = <<>>
    /\ subscriptions = {}
    /\ mounts = 0
    /\ fired = <<>>
    /\ disposals = [h \in {} |-> 0]
    /\ disposeError = FALSE
    /\ scheduled = {}

ListenerState == <<subscriptions, mounts, fired, disposals, disposeError>>

BridgeState == <<mounted, isLoading, isWebReady, loadError, unsolicited,
                 ListenerState, scheduled>>

\* the call returns `result`; its caller resumes in the same turn
Continue(c, result) ==
    /\ regPc' = [regPc EXCEPT ![c] = "returned"]
    /\ regResult' = [regResult EXCEPT ![c] = result]
    /\ IF c.kind = "request"
       THEN /\ posts' = [posts EXCEPT ![c.idx] =
                    postToWeb(@, PushTokenMessage(JSONParse(req[c.idx].raw).requestId,
                                                  result),
                              RefOfMount(req[c.idx].mount))]
            /\ req' = [req EXCEPT ![c.idx].pc = "done"]
            /\ UNCHANGED homeToken
       ELSE IF c.kind = "home"
       THEN /\ homeToken' = result
            /\ UNCHANGED <<req, posts>>
       ELSE UNCHANGED <<homeToken, req, posts>>

Advance(c, pc) ==
    /\ regPc' = [regPc EXCEPT ![c] = pc]
    /\ UNCHANGED <<regResult, homeToken, req, posts>>

\* finalStatus is 'granted': resolveProjectId, then getDevicePushTokenAsync
Granted(c) ==
    IF ~env.projectId
    THEN Continue(c, Null) /\ UNCHANGED calls
    ELSE /\ Advance(c, "getDevicePushToken")
         /\ calls' = [calls EXCEPT ![c] = Append(@, Call("getDevicePushTokenAsync", <<>>))]

GetPermissionsDone(c, outcome) ==
    /\ regPc[c] = "getPermissions"
    /\ CASE outcome = "granted" -> Granted(c)
         [] outcome = "denied" ->
              Advance(c, "requestPermissions") /\ UNCHANGED calls
         [] OTHER -> Continue(c, Null) /\ UNCHANGED calls
    /\ UNCHANGED <<env, expoPushToken, BridgeState>>

RequestPermissionsDone(c, outcome) ==
    /\ regPc[c] = "requestPermissions"
    /\ CASE outcome = "granted" -> Granted(c)
         [] OTHER -> Continue(c, Null) /\ UNCHANGED calls
    /\ UNCHANGED <<env, expoPushToken, BridgeState>>

\* this.expoPushToken = tokenData.data
StoreToken(current, obtained) == obtained

\* the OS resolves with a device token, or rejects
GetDevicePushTokenDone(c, outcome) ==
    /\ regPc[c] = "getDevicePushToken"
    /\ IF outcome \in Tokens
       THEN /\ expoPushToken' = StoreToken(expoPushToken, outcome)
            /\ Advance(c, "sendTokenToBackend")
            /\ calls' = [calls EXCEPT ![c] =
                           Append(@, Call("POST /save-token", <<expoPushToken'>>))]
       ELSE /\ Continue(c, Null)
            /\ UNCHANGED <<expoPushToken, calls>>
    /\ UNCHANGED <<env, BridgeState>>

\* sendTokenToBackend swallows a failed fetch
SendTokenToBackendDone(c, outcome) ==
    /\ regPc[c] = "sendTokenToBackend"
    /\ IF env.android
       THEN /\ Advance(c, "setupAndroidChannel")
            /\ calls' = [calls EXCEPT ![c] =
                           Append(@, Call("setNotificationChannelAsync", <<"default">>))]
       ELSE Continue(c, expoPushToken) /\ UNCHANGED calls
    /\ UNCHANGED <<env, expoPushToken, BridgeState>>

SetupAndroidChannelDone(c, outcome) ==
    /\ regPc[c] = "setupAndroidChannel"
    /\ IF outcome = "resolve"
       THEN Continue(c, expoPushToken)
       ELSE Continue(c, Null)
    /\ UNCHANGED <<env, expoPushToken, calls, BridgeState>>

\* HomeScreen mounts: its effect calls registerForPushNotifications
HomeMount ==
    /\ regPc[HomeCaller] = "idle"
    /\ regPc' = [regPc EXCEPT ![HomeCaller] = registerEntry(env)]
    /\ UNCHANGED <<env, expoPushToken, regResult, calls, homeToken, req, posts,
                   BridgeState>>

\* ------------------------------------------------------------------------
\* WebViewBridge: mount, readiness handshake, load events
\* ------------------------------------------------------------------------
RegistrationState == <<regPc, regResult, calls, homeToken>>

readinessEffectUnguarded(ready, existingToken) ==
    IF existingToken # Null
    THEN <<PushTokenMessage(JSUndefined, existingToken)>>
    ELSE <<>>

\* body of the effect on [isWebReady, postToWeb]: the messages it posts
readinessEffect(ready, existingToken) ==
    IF ~ready THEN <<>>
    ELSE IF existingToken # Null
    THEN <<PushTokenMessage(JSUndefined, existingToken)>>
    ELSE <<>>

depsChangedAlways(old, new) == TRUE

\* React re-runs an effect when a dependency changed
depsChanged(old, new) == old # new

PostAll(log, messages, refSet) ==
    log \o [k \in 1..Len(messages) |-> [msg |-> messages[k], delivered |-> refSet]]

\* ------------------------------------------------------------------------
\* Notification listeners: the subscription handles of the OS emitter
\* ------------------------------------------------------------------------
ListenerKinds == {"received", "response"}

\* the Subscription a bridge instance gets for a listener of the given kind
Handle(kind, m) == [kind |-> kind, mount |-> m]

addNotificationReceivedListener(subs, m) == subs \cup {Handle("received", m)}

addNotificationResponseReceivedListener(subs, m) == subs \cup {Handle("response", m)}

removeNotificationSubscriptionByKind(subs, handle) ==
    [subscriptions |-> {h \in subs : h.kind # handle.kind}, raised |-> FALSE]

\* subscription.remove(): the emitter drops the listener if it still has it
removeNotificationSubscription(subs, handle) ==
    [subscriptions |-> subs \ {handle}, raised |-> FALSE]

Disposed(counts, handle) ==
    [h \in DOMAIN counts \cup {handle} |->
        IF h = handle
        THEN (IF h \in DOMAIN counts THEN counts[h] + 1 ELSE 1)
        ELSE counts[h]]

cleanupKeeping(subs, m) == [subscriptions |-> subs, raised |-> FALSE]

\* the cleanup of the fan-out effect: both handles are disposed, the second
\* only if disposing the first did not raise
cleanup(subs, m) ==
    LET first == removeNotificationSubscription(subs, Handle("received", m))
    IN  IF first.raised THEN first
        ELSE removeNotificationSubscription(first.subscriptions, Handle("response", m))

EventType(kind) ==
    IF kind = "received" THEN "NOTIFICATION_RECEIVED" ELSE "NOTIFICATION_RESPONSE"

\* the identifier stands for the notification's id, title, body, data and date
serializeNotification(notification) == [id |-> notification]

serializeNotificationResponse(response) ==
    [actionIdentifier |-> "default", notification |-> serializeNotification(response)]

\* {type, payload}: the message a listener of the fan-out effect posts
NotificationMessage(kind, notification) ==
    [type |-> EventType(kind), requestId |-> JSUndefined, token |-> "undefined",
     action |-> "undefined", context |-> "undefined", error |-> NoError,
     payload |-> IF kind = "received" THEN serializeNotification(notification)
                 ELSE serializeNotificationResponse(notification)]

\* the mounts whose listener of this kind the emitter holds, oldest first
Listening(subs, kind) ==
    LET ms == {h.mount : h \in {x \in subs : x.kind = kind}}
    IN  [k \in 1..Cardinality(ms) |->
            CHOOSE m \in ms : Cardinality({x \in ms : x < m}) = k - 1]

\* the requests whose handler is suspended on an awaited call
InFlight == {i \in Slots : req[i].pc \notin {"idle", "done"}}

NotificationFiredWhenIdle(kind) ==
    /\ InFlight = {}
    /\ Len(fired) < MaxEvents
    /\ fired' = Append(fired, [kind |-> kind, pending |-> InFlight])
    /\ LET to == Listening(subscriptions, kind)
       IN  unsolicited' = unsolicited \o
               [k \in 1..Len(to) |->
                   [msg |-> NotificationMessage(kind, Len(fired')),
                    delivered |-> RefOfMount(to[k])]]
    /\ UNCHANGED <<env, expoPushToken, RegistrationState, mounted, isLoading,
                   isWebReady, loadError, req, posts, subscriptions, mounts,
                   disposals, disposeError, scheduled>>

\* The OS fires a notification event: every listener of its kind runs and
\* posts through the postToWeb of its own bridge instance.
NotificationFired(kind) ==
    /\ Len(fired) < MaxEvents
    /\ fired' = Append(fired, [kind |-> kind, pending |-> InFlight])
    /\ LET to == Listening(subscriptions, kind)
       IN  unsolicited' = unsolicited \o
               [k \in 1..Len(to) |->
                   [msg |-> NotificationMessage(kind, Len(fired')),
                    delivered |-> RefOfMount(to[k])]]
    /\ UNCHANGED <<env, expoPushToken, RegistrationState, mounted, isLoading,
                   isWebReady, loadError, req, posts, subscriptions, mounts,
                   disposals, disposeError, scheduled>>

\* first render: the effects run once, after the WebView ref is attached
Mount ==
    /\ ~mounted
    /\ mounts < MaxMounts
    /\ mounted' = TRUE
    /\ mounts' = mounts + 1
    /\ subscriptions' =
         addNotificationResponseReceivedListener(
             addNotificationReceivedListener(subscriptions, mounts'), mounts')
    /\ unsolicited' = PostAll(unsolicited, readinessEffect(isWebReady, expoPushToken),
                              WebViewRefCurrent(mounted', loadError))
    /\ UNCHANGED <<env, expoPushToken, RegistrationState, isLoading, isWebReady,
                   loadError, req, posts, fired, disposals, disposeError, scheduled>>

\* The bridge instance is unmounted: the cleanup of the fan-out effect runs
\* and the instance's state and ref are gone.
Unmount ==
    /\ mounted
    /\ mounted' = FALSE
    /\ LET done == cleanup(subscriptions, mounts)
       IN  /\ subscriptions' = done.subscriptions
           /\ disposeError' = (disposeError \/ done.raised)
    /\ disposals' = Disposed(Disposed(disposals, Handle("received", mounts)),
                             Handle("response", mounts))
    /\ isLoading' = TRUE
    /\ isWebReady' = FALSE
    /\ loadError' = Null
    /\ UNCHANGED <<env, expoPushToken, RegistrationState, req, posts, unsolicited,
                   mounts, fired, scheduled>>

\* removeNotificationSubscription called again on a handle that the cleanup
\* of its bridge instance has disposed already
DisposeAgain(handle) ==
    /\ handle \in DOMAIN disposals
    /\ disposals[handle] < MaxDisposals
    /\ LET done == removeNotificationSubscription(subscriptions, handle)
       IN  /\ subscriptions' = done.subscriptions
           /\ disposeError' = (disposeError \/ done.raised)
    /\ disposals' = Disposed(disposals, handle)
    /\ UNCHANGED <<env, expoPushToken, RegistrationState, mounted, isLoading,
                   isWebReady, loadError, req, posts, unsolicited, mounts, fired,
                   scheduled>>

\* onLoadEnd; the WebView reports the end of a load that failed as well
handleLoadEnd ==
    /\ mounted
    /\ isLoading' = FALSE
    /\ isWebReady' = TRUE
    /\ loadError' = Null
    /\ unsolicited' =
         IF depsChanged(isWebReady, isWebReady')
         THEN PostAll(unsolicited, readinessEffect(isWebReady', expoPushToken),
                      WebViewRefCurrent(mounted, loadError'))
         ELSE unsolicited
    /\ UNCHANGED <<env, expoPushToken, RegistrationState, mounted, req, posts,
                   ListenerState, scheduled>>

GenericLoadError == "Failed to load embedded web app"

\* onError, with or without a nativeEvent.description string
handleLoadError(description) ==
    /\ mounted
    /\ loadError = Null
    /\ isLoading' = FALSE
    /\ loadError' = IF description # Null THEN description ELSE GenericLoadError
    /\ UNCHANGED <<env, expoPushToken, RegistrationState, mounted, isWebReady,
                   req, posts, unsolicited, ListenerState, scheduled>>

\* "Tap to retry" on the fallback view
reloadWebView ==
    /\ mounted
    /\ loadError # Null
    /\ isLoading' = TRUE
    /\ loadError' = Null
    /\ UNCHANGED <<env, expoPushToken, RegistrationState, mounted, isWebReady,
                   req, posts, unsolicited, ListenerState, scheduled>>

\* ------------------------------------------------------------------------
\* WebViewBridge: handleBridgeRequest under withRequestGuard
\* ------------------------------------------------------------------------
ErrorContext == "handleBridgeRequest"

needsRegistrationAlways(currentToken) == TRUE

\* currentToken ?? (await registerForPushNotifications())
needsRegistration(currentToken) == currentToken = Null

OrEmptyKeep(data) == data

\* notificationData.data || {}
OrEmpty(data) == IF data = "undefined" THEN "{}" ELSE data

Outcome(pc, messages, made, reg) ==
    [pc |-> pc, post |-> messages, calls |-> made, reg |-> reg, thrown |-> NoError]

\* the catch of withRequestGuard: one ERROR message under the recovered id
Caught(raw, message) ==
    [Outcome("done", <<ErrorMessage(parsedRequestId(raw), message, ErrorContext)>>,
             <<>>, "idle") EXCEPT !.thrown = message]

\* The handler up to its first await that suspends: where it stops, what it
\* posted and which calls it started.
dispatch(raw, currentToken, e) ==
    LET parsed == JSONParse(raw)
        requestId == parsed.requestId
        nd == toNotificationData(parsed.payload)
    IN  IF ~parsed.ok THEN Caught(raw, ParseFailureMessage)
        ELSE IF parsed.isNull THEN Caught(raw, DestructureNullMessage)
        ELSE IF parsed.type = JSString("REQUEST_PUSH_TOKEN") THEN
            IF ~needsRegistration(currentToken)
            THEN Outcome("done", <<PushTokenMessage(requestId, currentToken)>>,
                         <<>>, "idle")
            ELSE IF registerEntry(e) = "returned"
            THEN Outcome("done", <<PushTokenMessage(requestId, Null)>>,
                         <<>>, "returned")
            ELSE Outcome("registering", <<>>, <<>>, registerEntry(e))
        ELSE IF parsed.type = JSString("SEND_PUSH_VIA_BACKEND") THEN
            IF ~nd.ok THEN Caught(raw, InvalidPayloadMessage)
            ELSE IF currentToken = Null
            THEN Outcome("done", <<SuccessMessage(requestId, "SEND_PUSH_VIA_BACKEND")>>,
                         <<>>, "idle")
            ELSE Outcome("fetch", <<>>,
                         <<Call("POST /send-notification",
                                <<currentToken, nd.title, nd.body, OrEmpty(nd.data)>>)>>,
                         "idle")
        ELSE IF parsed.type = JSString("SEND_LOCAL_NOTIFICATION") THEN
            IF ~nd.ok THEN Caught(raw, InvalidPayloadMessage)
            ELSE Outcome("schedule", <<>>,
                         <<Call("scheduleNotificationAsync",
                                <<nd.title, nd.body, OrEmpty(nd.data), "trigger:null">>)>>,
                         "idle")
        ELSE Caught(raw, UnknownTypeMessage(parsed.type))

\* onMessage of the rendered WebView
handleBridgeRequest(i, raw) ==
    /\ mounted
    /\ loadError = Null
    /\ req[i].pc = "idle"
    /\ \A j \in Slots : j < i => req[j].pc # "idle"
    /\ LET out == dispatch(raw, expoPushToken, env)
           c == RequestCaller(i)
       IN  /\ req' = [req EXCEPT ![i] =
                        [pc |-> out.pc, raw |-> raw, http |-> "none",
                         mount |-> mounts, thrown |-> out.thrown]]
           /\ posts' = [posts EXCEPT ![i] =
                          PostAll(@, out.post, WebViewRefCurrent(mounted, loadError))]
           /\ calls' = [calls EXCEPT ![c] = out.calls]
           /\ regPc' = [regPc EXCEPT ![c] = out.reg]
    /\ UNCHANGED <<env, expoPushToken, regResult, homeToken, BridgeState>>

FinishUnderLatestId(i, message) ==
    LET latest == CHOOSE j \in Slots :
                      /\ req[j].pc # "idle"
                      /\ \A k \in Slots : req[k].pc # "idle" => k <= j
    IN  /\ posts' = [posts EXCEPT ![i] =
                       postToWeb(@, [message EXCEPT !.requestId =
                                                      req[latest].raw.requestId],
                                 RefOfMount(req[i].mount))]
        /\ req' = [req EXCEPT ![i].pc = "done"]

\* the handler of message i ends by posting `message`
Finish(i, message) ==
    /\ posts' = [posts EXCEPT ![i] =
                   postToWeb(@, message, RefOfMount(req[i].mount))]
    /\ req' = [req EXCEPT ![i].pc = "done"]

ThrownUnhandled(i, message) ==
    /\ req' = [req EXCEPT ![i].pc = "done", ![i].thrown = message]
    /\ UNCHANGED posts

\* an awaited call of the handler rejects: the catch of withRequestGuard
Thrown(i, message) ==
    /\ posts' = [posts EXCEPT ![i] =
                   postToWeb(@, ErrorMessage(parsedRequestId(req[i].raw), message,
                                             ErrorContext),
                             RefOfMount(req[i].mount))]
    /\ req' = [req EXCEPT ![i].pc = "done", ![i].thrown = message]

NetworkFailureMessage == <<"Network request failed">>

JsonFailureMessage == <<"JSON Parse error">>

ServerErrorMessage == <<"server error">>

GenericBackendMessage == <<"Failed to request backend notification">>

\* fetch of /send-notification settles
FetchDone(i, outcome) ==
    /\ req[i].pc = "fetch"
    /\ IF outcome = "reject"
       THEN Thrown(i, NetworkFailureMessage)
       ELSE /\ req' = [req EXCEPT ![i].pc = "json", ![i].http = outcome]
            /\ UNCHANGED posts
    /\ UNCHANGED <<env, expoPushToken, RegistrationState, BridgeState>>

\* response.json() settles; then the response.ok check.  A body that carries
\* an error string is JSON, so its decoding does not fail.
JsonDone(i, outcome) ==
    /\ req[i].pc = "json"
    /\ outcome = "reject" => req[i].http # "failWithError"
    /\ IF outcome = "reject" THEN Thrown(i, JsonFailureMessage)
       ELSE IF req[i].http = "ok"
       THEN Finish(i, SuccessMessage(JSONParse(req[i].raw).requestId,
                                     "SEND_PUSH_VIA_BACKEND"))
       ELSE IF req[i].http = "failWithError" THEN Thrown(i, ServerErrorMessage)
       ELSE Thrown(i, GenericBackendMessage)
    /\ UNCHANGED <<env, expoPushToken, RegistrationState, BridgeState>>

ScheduleDoneRethrowing(i, outcome) ==
    /\ req[i].pc = "schedule"
    /\ scheduled' = IF outcome = "resolve" THEN scheduled \cup {i} ELSE scheduled
    /\ IF outcome = "resolve"
       THEN Finish(i, SuccessMessage(JSONParse(req[i].raw).requestId,
                                     "SEND_LOCAL_NOTIFICATION"))
       ELSE Thrown(i, <<"Failed to schedule notification">>)
    /\ UNCHANGED <<env, expoPushToken, RegistrationState, mounted, isLoading,
                   isWebReady, loadError, unsolicited, ListenerState>>

\* scheduleNotificationAsync settles; sendLocalNotification swallows a failure
ScheduleDone(i, outcome) ==
    /\ req[i].pc = "schedule"
    /\ scheduled' = IF outcome = "resolve" THEN scheduled \cup {i} ELSE scheduled
    /\ Finish(i, SuccessMessage(JSONParse(req[i].raw).requestId,
                                "SEND_LOCAL_NOTIFICATION"))
    /\ UNCHANGED <<env, expoPushToken, RegistrationState, mounted, isLoading,
                   isWebReady, loadError, unsolicited, ListenerState>>

\* ------------------------------------------------------------------------
\* Specifications
\* ------------------------------------------------------------------------
\* an awaited OS or HTTP call of caller c's registration settles
Registering(c) ==
    \/ \E outcome \in {"granted", "denied", "reject"} : GetPermissionsDone(c, outcome)
    \/ \E outcome \in {"granted", "denied", "reject"} : RequestPermissionsDone(c, outcome)
    \/ \E outcome \in Tokens \cup {"reject"} : GetDevicePushTokenDone(c, outcome)
    \/ \E outcome \in {"resolve", "reject"} : SendTokenToBackendDone(c, outcome)
    \/ \E outcome \in {"resolve", "reject"} : SetupAndroidChannelDone(c, outcome)

BridgeEvents ==
    \/ Mount
    \/ handleLoadEnd
    \/ \E description \in {Null, "net::ERR_CONNECTION_REFUSED"} : handleLoadError(description)
    \/ reloadWebView

Settling(i) ==
    \/ \E outcome \in {"reject", "ok", "failWithError", "failNoError"} : FetchDone(i, outcome)
    \/ \E outcome \in {"resolve", "reject"} : JsonDone(i, outcome)
    \/ \E outcome \in {"resolve", "reject"} : ScheduleDone(i, outcome)

\* well-formed requests of each type, and two messages that fail at once
Requests(i) ==
    { RawMessage(JSString(ty), JSString(RequestIdNames[i]),
                 IF ty \in SendTypes THEN ValidPayload ELSE NoPayload) :
        ty \in RequestTypes \cup {"FOO"} }
    \cup {InvalidRaw}

TokenRequests(i) ==
    {RawMessage(JSString("REQUEST_PUSH_TOKEN"), JSString(RequestIdNames[i]), NoPayload)}

\* Every caller of registerForPushNotifications: start-up, the home screen and
\* a REQUEST_PUSH_TOKEN message, with the bridge's load events.
NextService ==
    \/ \E c \in {StartupCaller, HomeCaller, RequestCaller(1)} : Registering(c)
    \/ HomeMount
    \/ BridgeEvents
    \/ \E raw \in TokenRequests(1) : handleBridgeRequest(1, raw)

SpecService == Init /\ [][NextService]_vars

\* Inbound messages of any shape, each handled to its end.
NextDispatch ==
    \/ \E c \in {StartupCaller} \cup {RequestCaller(i) : i \in 1..MaxMessages} :
          Registering(c)
    \/ BridgeEvents
    \/ \E i \in 1..MaxMessages : \E raw \in Raws(i) : handleBridgeRequest(i, raw)
    \/ \E i \in 1..MaxMessages : Settling(i)

SpecDispatch == Init /\ [][NextDispatch]_vars

\* Several requests in flight at once.
NextBridge ==
    \/ \E c \in Callers \ {HomeCaller} : Registering(c)
    \/ BridgeEvents
    \/ \E i \in Slots : \E raw \in Requests(i) : handleBridgeRequest(i, raw)
    \/ \E i \in Slots : Settling(i)

SpecBridge == Init /\ [][NextBridge]_vars

\* Requests in flight at once on a bridge whose page loads without error.
NextConcurrent ==
    \/ \E c \in Callers \ {HomeCaller} : Registering(c)
    \/ Mount
    \/ handleLoadEnd
    \/ \E i \in Slots : \E raw \in Requests(i) : handleBridgeRequest(i, raw)
    \/ \E i \in Slots : Settling(i)

SpecConcurrent == Init /\ [][NextConcurrent]_vars

\* One request handled while the OS fires notification events, on a bridge
\* whose page loads without error.
NextEvents ==
    \/ \E c \in {StartupCaller, RequestCaller(1)} : Registering(c)
    \/ Mount
    \/ handleLoadEnd
    \/ \E kind \in ListenerKinds : NotificationFired(kind)
    \/ \E raw \in Requests(1) : handleBridgeRequest(1, raw)
    \/ Settling(1)

SpecEvents == Init /\ [][NextEvents]_vars

Handles == {Handle(kind, m) : kind \in ListenerKinds, m \in 1..MaxMounts}

\* The bridge mounted and unmounted while the OS fires notification events.
NextSubscriptions ==
    \/ Registering(StartupCaller)
    \/ BridgeEvents
    \/ Unmount
    \/ \E kind \in ListenerKinds : NotificationFired(kind)

SpecSubscriptions == Init /\ [][NextSubscriptions]_vars

\* Subscription handles disposed by the cleanup and disposed again.
NextDisposal ==
    \/ Mount
    \/ Unmount
    \/ \E kind \in ListenerKinds : NotificationFired(kind)
    \/ \E handle \in Handles : DisposeAgain(handle)

SpecDisposal == Init /\ [][NextDisposal]_vars

\* ------------------------------------------------------------------------
\* Properties
\* ------------------------------------------------------------------------
Received(i) == req[i].pc # "idle"

\* message i is a JSON object whose type field is the string ty
HasType(i, ty) == req[i].raw.json = "object" /\ req[i].raw.type = JSString(ty)

\* message i is a JSON object with a string requestId field
HasStringId(i) == req[i].raw.json = "object" /\ req[i].raw.requestId.t = "string"

Contains(message, text) == \E k \in DOMAIN message : message[k] = text

\* the postToWeb calls of message i that reached the content
Reached(i) == {k \in DOMAIN posts[i] : posts[i][k].delivered}

ReceivedNow(i) == req[i].pc = "idle" /\ req'[i].pc # "idle"

TokenMessages(log) == SelectSeq(log, LAMBDA p : p.msg.type = "PUSH_TOKEN")

\* C1: once the handler of a message that carries a string requestId has run
\* to its end, exactly one response with that requestId (PUSH_TOKEN, SUCCESS
\* or ERROR) has been posted to the web content.
C1_ExactlyOneResponse ==
    \A i \in Slots :
        (req[i].pc = "done" /\ HasStringId(i)) =>
            Cardinality({k \in Reached(i) :
                /\ posts[i][k].msg.requestId = req[i].raw.requestId
                /\ posts[i][k].msg.type \in {"PUSH_TOKEN", "SUCCESS", "ERROR"}}) = 1

\* C2: a SEND_PUSH_VIA_BACKEND message received while no token is cached is
\* answered at once with one ERROR response, and no HTTP call is made for it.
C2_NoTokenYieldsError ==
    [][\A i \in Slots :
         (ReceivedNow(i) /\ req'[i].raw.json = "object"
            /\ req'[i].raw.type = JSString("SEND_PUSH_VIA_BACKEND")
            /\ expoPushToken = Null)
         => /\ req'[i].pc = "done"
            /\ Len(posts'[i]) = 1
            /\ posts'[i][1].msg.type = "ERROR"
            /\ calls'[RequestCaller(i)] = <<>>]_vars

\* C3: every ERROR response to a message that is valid JSON with a string
\* requestId field carries that requestId.
C3_ErrorCarriesRequestId ==
    \A i \in Slots : \A k \in DOMAIN posts[i] :
        (posts[i][k].msg.type = "ERROR" /\ HasStringId(i)) =>
            posts[i][k].msg.requestId = req[i].raw.requestId

C3_Witness ==
    \E i \in Slots :
        /\ HasStringId(i)
        /\ req[i].pc = "done"
        /\ Len(posts[i]) = 1
        /\ posts[i][1].msg.type = "ERROR"
        /\ posts[i][1].msg.requestId.t = "string"

\* C4: once the process-wide push token is non-null it never changes.
C4_TokenImmutable ==
    [][expoPushToken # Null => expoPushToken' = expoPushToken]_vars

\* C5: when a REQUEST_PUSH_TOKEN message arrives after an earlier one whose
\* registration succeeded with token t, the earlier one has got its PUSH_TOKEN
\* response with t and the later one is answered at once with PUSH_TOKEN t,
\* without a registration and without any call.
C5_SecondRequestSameToken ==
    [][\A i, j \in Slots :
         (/\ i < j
          /\ req[i].pc = "done" /\ HasType(i, "REQUEST_PUSH_TOKEN")
          /\ regPc[RequestCaller(i)] = "returned"
          /\ regResult[RequestCaller(i)] \in Tokens
          /\ ReceivedNow(j)
          /\ req'[j].raw.json = "object"
          /\ req'[j].raw.type = JSString("REQUEST_PUSH_TOKEN"))
         => /\ Reached(i) = {1}
            /\ posts[i][1].msg.type = "PUSH_TOKEN"
            /\ posts[i][1].msg.token = regResult[RequestCaller(i)]
            /\ req'[j].pc = "done"
            /\ Len(posts'[j]) = 1
            /\ posts'[j][1].delivered
            /\ posts'[j][1].msg.type = "PUSH_TOKEN"
            /\ posts'[j][1].msg.token = regResult[RequestCaller(i)]
            /\ regPc'[RequestCaller(j)] = "idle"
            /\ calls'[RequestCaller(j)] = <<>>]_vars

C6_Receive(i) ==
    LET c == RequestCaller(i)
    IN  (ReceivedNow(i) /\ req'[i].raw.json = "object"
           /\ req'[i].raw.type = JSString("REQUEST_PUSH_TOKEN"))
        => IF expoPushToken # Null
           THEN /\ req'[i].pc = "done"
                /\ regPc'[c] = "idle"
                /\ calls'[c] = <<>>
                /\ Len(posts'[i]) = 1
                /\ posts'[i][1].msg.type = "PUSH_TOKEN"
                /\ posts'[i][1].msg.token = expoPushToken
           ELSE /\ regPc'[c] # "idle"
                /\ IF req'[i].pc = "done"
                   THEN /\ Len(posts'[i]) = 1
                        /\ posts'[i][1].msg.type = "PUSH_TOKEN"
                        /\ posts'[i][1].msg.token = Null
                   ELSE req'[i].pc = "registering" /\ posts'[i] = <<>>

C6_Return(i) ==
    (req[i].pc = "registering" /\ req'[i].pc # "registering")
    => /\ req'[i].pc = "done"
       /\ regPc'[RequestCaller(i)] = "returned"
       /\ Len(posts'[i]) = 1
       /\ posts'[i][1].msg.type = "PUSH_TOKEN"
       /\ posts'[i][1].msg.token = regResult'[RequestCaller(i)]

C6_Settled(i) ==
    req[i].pc = "done" => (req'[i] = req[i] /\ posts'[i] = posts[i])

\* C6: REQUEST_PUSH_TOKEN is answered with PUSH_TOKEN and nothing else: the
\* cached token without a registration when one is cached, and otherwise what
\* its single registration call returns, null included.
C6_RequestPushToken ==
    [][\A i \in Slots : C6_Receive(i) /\ C6_Return(i) /\ C6_Settled(i)]_vars

C6_Witness ==
    \E i \in Slots :
        /\ req[i].pc = "done"
        /\ HasType(i, "REQUEST_PUSH_TOKEN")
        /\ regPc[RequestCaller(i)] = "returned"
        /\ regResult[RequestCaller(i)] = Null
        /\ calls[RequestCaller(i)] # <<>>
        /\ Len(posts[i]) = 1
        /\ posts[i][1].msg = PushTokenMessage(req[i].raw.requestId, Null)

\* C7: when isWebReady becomes set while a token is cached, exactly one
\* PUSH_TOKEN message without requestId, carrying that token, is posted; once
\* the flag is set no step posts another.
C7_ReadinessPushOnce ==
    [][/\ (~isWebReady /\ isWebReady' /\ expoPushToken # Null)
          => TokenMessages(unsolicited') =
               <<[msg |-> PushTokenMessage(JSUndefined, expoPushToken),
                  delivered |-> TRUE]>>
       /\ isWebReady => TokenMessages(unsolicited') = TokenMessages(unsolicited)]_vars

C7_Witness ==
    /\ isWebReady
    /\ isLoading
    /\ Len(TokenMessages(unsolicited)) = 1
    /\ unsolicited[1].delivered
    /\ unsolicited[1].msg.requestId = JSUndefined

\* C8: while isWebReady is unset no PUSH_TOKEN message has been posted outside
\* a request.
C8_NoPushBeforeReady ==
    ~isWebReady => TokenMessages(unsolicited) = <<>>

C8_Witness ==
    /\ mounted
    /\ ~isWebReady
    /\ expoPushToken # Null
    /\ regPc[StartupCaller] = "returned"

\* C9: a send request whose payload is not an object or lacks title or body
\* is answered with one ERROR response carrying the invalid-payload message,
\* and no scheduler call and no HTTP call is made for it.
C9_InvalidPayloadRejected ==
    \A i \in Slots :
        (/\ Received(i)
         /\ req[i].raw.json = "object"
         /\ req[i].raw.type \in {JSString(ty) : ty \in SendTypes}
         /\ LacksTitleOrBody(req[i].raw.payload))
        => /\ req[i].pc = "done"
           /\ Len(posts[i]) = 1
           /\ posts[i][1].msg.type = "ERROR"
           /\ posts[i][1].msg.error = InvalidPayloadMessage
           /\ calls[RequestCaller(i)] = <<>>

C9_Witness ==
    \E i \in Slots :
        /\ req[i].pc = "done"
        /\ HasType(i, "SEND_LOCAL_NOTIFICATION")
        /\ req[i].raw.payload.t = "object"
        /\ req[i].raw.payload.hasTitle
        /\ ~req[i].raw.payload.hasBody
        /\ posts[i][1].msg.error = InvalidPayloadMessage

\* C10: a request whose type is none of the three request types is answered
\* with one ERROR response whose message contains the type string, and no
\* registration, scheduler or HTTP call is made for it.
C10_UnknownTypeRejected ==
    \A i \in Slots :
        (/\ Received(i)
         /\ req[i].raw.json = "object"
         /\ req[i].raw.type \notin {JSString(ty) : ty \in RequestTypes})
        => /\ req[i].pc = "done"
           /\ Len(posts[i]) = 1
           /\ posts[i][1].msg.type = "ERROR"
           /\ Contains(posts[i][1].msg.error, String(req[i].raw.type))
           /\ regPc[RequestCaller(i)] = "idle"
           /\ calls[RequestCaller(i)] = <<>>

C10_Witness ==
    \E i \in Slots :
        /\ req[i].pc = "done"
        /\ HasType(i, "FOO")
        /\ posts[i][1].msg.type = "ERROR"
        /\ Contains(posts[i][1].msg.error, "FOO")

\* C11: a SEND_LOCAL_NOTIFICATION message whose payload holds a title and a
\* body and no data makes exactly one scheduler call, with that title and
\* body, data {} and a null trigger, and is answered with one SUCCESS response
\* once that call has settled.
C11_LocalNotificationScheduled ==
    \A i \in Slots :
        (/\ Received(i)
         /\ HasType(i, "SEND_LOCAL_NOTIFICATION")
         /\ req[i].raw.payload.t = "object"
         /\ req[i].raw.payload.hasTitle /\ req[i].raw.payload.title.t = "string"
         /\ req[i].raw.payload.hasBody /\ req[i].raw.payload.body.t = "string"
         /\ req[i].raw.payload.data = "undefined")
        => /\ calls[RequestCaller(i)] =
                <<Call("scheduleNotificationAsync",
                       <<req[i].raw.payload.title.v, req[i].raw.payload.body.v,
                         "{}", "trigger:null">>)>>
           /\ req[i].pc \in {"schedule", "done"}
           /\ req[i].pc = "schedule" => posts[i] = <<>>
           /\ req[i].pc = "done" =>
                posts[i] = <<[msg |-> SuccessMessage(req[i].raw.requestId,
                                                     "SEND_LOCAL_NOTIFICATION"),
                              delivered |-> posts[i][1].delivered]>>

C11_Witness ==
    \E i \in Slots :
        /\ req[i].pc = "done"
        /\ HasType(i, "SEND_LOCAL_NOTIFICATION")
        /\ req[i].raw.payload = ValidPayload
        /\ i \in scheduled
        /\ Len(posts[i]) = 1
        /\ posts[i][1].msg.type = "SUCCESS"
        /\ posts[i][1].delivered
        /\ Len(calls[RequestCaller(i)]) = 1

\* C12: an error raised in the handler of an inbound message ends the handler
\* in the catch of the guard: exactly one message is posted for it, of type
\* ERROR, with the error's message as its error field and the context tag
\* handleBridgeRequest; and no ERROR message is posted without such an error.
C12_ErrorsConverted ==
    \A i \in Slots :
        /\ req[i].thrown # NoError =>
              /\ req[i].pc = "done"
              /\ Len(posts[i]) = 1
              /\ posts[i][1].msg.type = "ERROR"
              /\ posts[i][1].msg.error = req[i].thrown
              /\ posts[i][1].msg.context = "handleBridgeRequest"
        /\ req[i].thrown = NoError =>
              \A k \in DOMAIN posts[i] : posts[i][k].msg.type # "ERROR"

C12_Witness ==
    \E i \in Slots :
        /\ req[i].pc = "done"
        /\ HasType(i, "SEND_PUSH_VIA_BACKEND")
        /\ req[i].thrown = NetworkFailureMessage
        /\ posts[i][1].msg.type = "ERROR"
        /\ posts[i][1].msg.context = "handleBridgeRequest"

\* C13: registerForPushNotifications always returns a token or null.  It
\* returns null, having requested no device token and sent nothing to the
\* backend, on a device that is not physical, in Expo Go, without a project
\* id, and when permission is not granted or a permission query fails; and it
\* returns null when the device-token call fails.
C13_RegistrationFailsSoft ==
    [][\A c \in Callers :
         /\ regPc'[c] = "returned" => regResult'[c] \in Tokens \cup {Null}
         /\ (regPc'[c] = "returned"
               /\ (~env.isDevice \/ env.expoGo \/ ~env.projectId))
            => (regResult'[c] = Null /\ calls'[c] = <<>>)
         /\ (regPc[c] \in {"getPermissions", "requestPermissions"}
               /\ regPc'[c] = "returned")
            => (regResult'[c] = Null /\ calls'[c] = <<>>)
         /\ (regPc[c] = "getDevicePushToken" /\ regPc'[c] = "returned")
            => (regResult'[c] = Null /\ expoPushToken' = expoPushToken
                  /\ Len(calls'[c]) = 1)]_vars

C13_Witness ==
    /\ env.isDevice /\ env.expoGo
    /\ regPc[StartupCaller] = "returned"
    /\ regPc[HomeCaller] = "returned"
    /\ regPc[RequestCaller(1)] = "returned"
    /\ \A c \in {StartupCaller, HomeCaller, RequestCaller(1)} :
          regResult[c] = Null /\ calls[c] = <<>>

EventMessages(log) ==
    SelectSeq(log, LAMBDA p : p.msg.type \in {"NOTIFICATION_RECEIVED",
                                              "NOTIFICATION_RESPONSE"})

\* C14: a mounted bridge holds exactly one subscription of each listener
\* type and an unmounted one none; an event fired while the bridge is mounted
\* is posted as exactly one message, of the type of the event and without
\* requestId; and no other step posts a notification message.
C14_EventForwardedOnce ==
    [][/\ \A kind \in ListenerKinds :
            Cardinality({h \in subscriptions' : h.kind = kind}) =
                IF mounted' THEN 1 ELSE 0
       /\ IF Len(fired') > Len(fired)
          THEN LET new == SubSeq(unsolicited', Len(unsolicited) + 1, Len(unsolicited'))
                   kind == fired'[Len(fired')].kind
               IN  IF mounted
                   THEN /\ Len(new) = 1
                        /\ new[1].msg.type =
                             (IF kind = "received" THEN "NOTIFICATION_RECEIVED"
                              ELSE "NOTIFICATION_RESPONSE")
                        /\ new[1].msg.requestId = JSUndefined
                        /\ new[1].msg.payload \in
                             {[id |-> Len(fired')],
                              [actionIdentifier |-> "default",
                               notification |-> [id |-> Len(fired')]]}
                   ELSE new = <<>>
          ELSE EventMessages(unsolicited') = EventMessages(unsolicited)]_vars

C14_Witness ==
    /\ mounted
    /\ mounts = 2
    /\ Len(fired) = 2
    /\ fired[1].kind = "received"
    /\ fired[2].kind = "response"
    /\ Len(EventMessages(unsolicited)) = 2
    /\ \A k \in 1..2 : EventMessages(unsolicited)[k].delivered

\* C15: a SEND_PUSH_VIA_BACKEND request whose POST the backend answered with
\* a non-2xx status ends with one ERROR response, and no SUCCESS, whose
\* message is the error string the server supplied, or the generic message
\* when it supplied none.
C15_BackendFailureReported ==
    \A i \in Slots :
        (/\ req[i].pc = "done"
         /\ HasType(i, "SEND_PUSH_VIA_BACKEND")
         /\ req[i].http \in {"failWithError", "failNoError"})
        => /\ Len(posts[i]) = 1
           /\ posts[i][1].msg.type = "ERROR"
           /\ posts[i][1].msg.error =
                IF req[i].http = "failWithError"
                THEN <<"server error">>
                ELSE <<"Failed to request backend notification">>

\* C16: while the fallback view is shown (loadError is set) the error stays
\* as it is in every step except the manual retry, which clears it and sets
\* the loading flag.
C16_ErrorStaysUntilRetry ==
    [][loadError # Null =>
         \/ loadError' = loadError
         \/ (loadError' = Null /\ isLoading')]_vars

C18_ResponsesCorrelated ==
    \A i \in Slots :
        /\ Len(posts[i]) <= 1
        /\ posts[i] # <<>> => req[i].pc = "done"
        /\ \A k \in DOMAIN posts[i] :
            LET m == posts[i][k].msg
            IN  /\ HasStringId(i) => m.requestId = req[i].raw.requestId
                /\ \A j \in Slots \ {i} :
                      HasStringId(j) => m.requestId # req[j].raw.requestId
                /\ HasType(i, "REQUEST_PUSH_TOKEN") =>
                      /\ m.type = "PUSH_TOKEN"
                      /\ regPc[RequestCaller(i)] = "returned" =>
                            m.token = regResult[RequestCaller(i)]
                /\ \A ty \in SendTypes :
                      HasType(i, ty) =>
                          \/ m.type = "SUCCESS" /\ m.action = ty
                          \/ m.type = "ERROR"
                /\ ~(\E ty \in RequestTypes : HasType(i, ty)) => m.type = "ERROR"

C18_Witness ==
    /\ req[1].pc = "fetch"
    /\ req[2].pc = "done"
    /\ HasType(2, "SEND_LOCAL_NOTIFICATION")
    /\ posts[1] = <<>>
    /\ posts[2] = <<[msg |-> SuccessMessage(JSString("r2"), "SEND_LOCAL_NOTIFICATION"),
                     delivered |-> TRUE]>>

\* an awaited call of request i can settle
CanSettle(i) ==
    \/ ENABLED Registering(RequestCaller(i))
    \/ ENABLED Settling(i)

\* C19: while a request is suspended on a permission prompt, an OS call or
\* an HTTP call, a notification event can fire and is posted by the listener
\* in that same step, the request staying suspended; and the request's
\* awaited call can still settle afterwards, which ends the request with its
\* one response.
C19_EventsNotBlocked ==
    /\ [](\A i \in InFlight :
            /\ Len(fired) < MaxEvents => ENABLED NotificationFired("received")
            /\ CanSettle(i))
    /\ [][/\ (Len(fired') > Len(fired) /\ InFlight # {})
              => /\ req' = req /\ posts' = posts
                 /\ WebViewRefCurrent(mounted, loadError) =>
                       /\ Len(unsolicited') = Len(unsolicited) + 1
                       /\ unsolicited'[Len(unsolicited')].delivered
                       /\ unsolicited'[Len(unsolicited')].msg.type
                            \in {"NOTIFICATION_RECEIVED", "NOTIFICATION_RESPONSE"}
           /\ \A i \in Slots :
                (i \in InFlight /\ req'[i].pc = "done") => Len(posts'[i]) = 1]_vars

C19_Witness ==
    /\ req[1].pc = "done"
    /\ HasType(1, "REQUEST_PUSH_TOKEN")
    /\ Len(posts[1]) = 1
    /\ Len(fired) = 1
    /\ fired[1].pending = {1}
    /\ Len(EventMessages(unsolicited)) = 1
    /\ EventMessages(unsolicited)[1].delivered

\* C20: a SEND_LOCAL_NOTIFICATION request with a title and a body ends
\* without an error reaching the guard and with one SUCCESS response, whether
\* the OS scheduled the notification or the scheduler call failed.
C20_LocalFailureSwallowed ==
    \A i \in Slots :
        (/\ req[i].pc = "done"
         /\ HasType(i, "SEND_LOCAL_NOTIFICATION")
         /\ ~LacksTitleOrBody(req[i].raw.payload))
        => /\ req[i].thrown = NoError
           /\ Len(posts[i]) = 1
           /\ posts[i][1].msg.type = "SUCCESS"
           /\ posts[i][1].msg.action = "SEND_LOCAL_NOTIFICATION"
           /\ posts[i][1].msg.requestId = req[i].raw.requestId

C20_Witness ==
    \E i \in Slots :
        /\ req[i].pc = "done"
        /\ HasType(i, "SEND_LOCAL_NOTIFICATION")
        /\ req[i].raw.payload = ValidPayload
        /\ i \notin scheduled
        /\ Len(posts[i]) = 1
        /\ posts[i][1].msg.type = "SUCCESS"

\* the calls of operation op made on behalf of caller c
CallsOf(c, op) == {k \in DOMAIN calls[c] : calls[c][k].op = op}

\* C21: over the whole process the notification channel is configured at
\* most once, however many registrations succeed.
C21_ChannelConfiguredOnce ==
    Cardinality(UNION {{<<c, k>> : k \in CallsOf(c, "setNotificationChannelAsync")} :
                         c \in Callers}) <= 1

\* C22: when a call to registerForPushNotifications returns, the value it
\* returns is the token that is cached at that moment (null only when none
\* is cached).
C22_ReturnsCachedToken ==
    [][\A c \in Callers :
         (regPc[c] # "returned" /\ regPc'[c] = "returned")
         => regResult'[c] = expoPushToken']_vars

\* the calls to registerForPushNotifications that are awaiting the OS or the
\* backend
InProgress == {c \in Callers : regPc[c] \notin {"idle", "returned"}}

\* C23: at most one registration attempt is in progress at any time.
C23_OneRegistrationAtATime ==
    Cardinality(InProgress) <= 1

\* the error field is set exactly in messages of type ERROR
ErrorIffErrorType(m) == (m.error # NoError) <=> (m.type = "ERROR")

\* C24: every message the host posts has its error field set exactly when
\* its type is ERROR; a response to REQUEST_PUSH_TOKEN is PUSH_TOKEN or
\* ERROR; a response to a send request is SUCCESS with the request type as
\* action, or ERROR; a message posted outside a request is PUSH_TOKEN or a
\* notification message, and a notification message has no requestId.
C24_MessagesWellTyped ==
    /\ \A i \in Slots : \A k \in DOMAIN posts[i] :
         LET m == posts[i][k].msg
         IN  /\ ErrorIffErrorType(m)
             /\ m.type \in {"PUSH_TOKEN", "SUCCESS", "ERROR"}
             /\ HasType(i, "REQUEST_PUSH_TOKEN") => m.type \in {"PUSH_TOKEN", "ERROR"}
             /\ \A ty \in SendTypes :
                   HasType(i, ty) =>
                       \/ m.type = "SUCCESS" /\ m.action = ty
                       \/ m.type = "ERROR"
             /\ m.type = "SUCCESS" => \E ty \in SendTypes : HasType(i, ty)
    /\ \A k \in DOMAIN unsolicited :
         LET m == unsolicited[k].msg
         IN  /\ ErrorIffErrorType(m)
             /\ m.type \in {"PUSH_TOKEN", "NOTIFICATION_RECEIVED",
                             "NOTIFICATION_RESPONSE"}
             /\ m.type \in {"NOTIFICATION_RECEIVED", "NOTIFICATION_RESPONSE"}
                   => m.requestId = JSUndefined

C24_Witness ==
    /\ req[1].pc = "done"
    /\ HasType(1, "SEND_PUSH_VIA_BACKEND")
    /\ Len(posts[1]) = 1
    /\ posts[1][1].msg.type = "ERROR"
    /\ posts[1][1].msg.error = <<"server error">>
    /\ Len(TokenMessages(unsolicited)) = 1
    /\ Len(EventMessages(unsolicited)) = 2
====
